---- MODULE Spec2Model ----
(***************************************************************************)
(* A model of boost/hash2/sha2.hpp: the block buffer sha2_base (update),   *)
(* the SHA-2 compression functions (transform), and the six digest         *)
(* classes (init, result).                                                 *)
(*                                                                         *)
(* A byte is an integer 0..255.  A Word (std::uint32_t / std::uint64_t) is *)
(* the tuple of its 16-bit limbs, most significant first (two limbs for a  *)
(* 32-bit word, four for a 64-bit word), so that words keep their width.   *)
(* Word constants are written in hex, limb by limb.                        *)
(***************************************************************************)
EXTENDS Integers, Sequences, FiniteSets, TLC

----------------------------------------------------------------------------
(* Words *)

\* Exclusive or of two 4-bit values, bit by bit.
Xor4 ==
    [a \in 0..15 |-> [b \in 0..15 |->
          ((a + b) % 2)
        + 2 * (((a \div 2) + (b \div 2)) % 2)
        + 4 * (((a \div 4) + (b \div 4)) % 2)
        + 8 * (((a \div 8) + (b \div 8)) % 2)]]

\* Exclusive or of two bytes.
Xor8 ==
    [a \in 0..255 |-> [b \in 0..255 |->
        Xor4[a % 16][b % 16] + 16 * Xor4[a \div 16][b \div 16]]]

\* Exclusive or and conjunction of two 16-bit limbs.
Xor16(a, b) == Xor8[a % 256][b % 256] + 256 * Xor8[a \div 256][b \div 256]
And16(a, b) == (a + b - Xor16(a, b)) \div 2

\* x ^ y, x & y, ~x
Xor(x, y) ==
    IF Len(x) = 2
    THEN <<Xor16(x[1], y[1]), Xor16(x[2], y[2])>>
    ELSE <<Xor16(x[1], y[1]), Xor16(x[2], y[2]), Xor16(x[3], y[3]), Xor16(x[4], y[4])>>
And(x, y) ==
    IF Len(x) = 2
    THEN <<And16(x[1], y[1]), And16(x[2], y[2])>>
    ELSE <<And16(x[1], y[1]), And16(x[2], y[2]), And16(x[3], y[3]), And16(x[4], y[4])>>
Not(x) ==
    IF Len(x) = 2
    THEN <<65535 - x[1], 65535 - x[2]>>
    ELSE <<65535 - x[1], 65535 - x[2], 65535 - x[3], 65535 - x[4]>>

\* The 16 bits of the shifted word whose lowest bit is bit r of limb lo: the
\* upper 16 - r bits of lo under the lower r bits of hi, its more significant
\* neighbour.
Splice(hi, lo, r) == (lo \div (2 ^ r)) + (hi % (2 ^ r)) * (2 ^ (16 - r))

\* x shifted right by q whole limbs
ShrLimbs(x, q) ==
    IF q = 0 THEN x
    ELSE IF Len(x) = 2 THEN <<0, x[1]>>
    ELSE IF q = 1 THEN <<0, x[1], x[2], x[3]>>
    ELSE IF q = 2 THEN <<0, 0, x[1], x[2]>>
    ELSE <<0, 0, 0, x[1]>>

\* x shifted right by r < 16 bits
ShrBits(x, r) ==
    IF Len(x) = 2
    THEN <<Splice(0, x[1], r), Splice(x[1], x[2], r)>>
    ELSE <<Splice(0, x[1], r), Splice(x[1], x[2], r), Splice(x[2], x[3], r),
           Splice(x[3], x[4], r)>>

\* x >> n, for n less than the width of x
Shr(x, n) == ShrBits(ShrLimbs(x, n \div 16), n % 16)

\* x rotated right by q whole limbs
RotLimbs(x, q) ==
    IF q = 0 THEN x
    ELSE IF Len(x) = 2 THEN <<x[2], x[1]>>
    ELSE IF q = 1 THEN <<x[4], x[1], x[2], x[3]>>
    ELSE IF q = 2 THEN <<x[3], x[4], x[1], x[2]>>
    ELSE <<x[2], x[3], x[4], x[1]>>

\* x rotated right by r < 16 bits
RotBits(x, r) ==
    IF Len(x) = 2
    THEN <<Splice(x[2], x[1], r), Splice(x[1], x[2], r)>>
    ELSE <<Splice(x[4], x[1], r), Splice(x[1], x[2], r), Splice(x[2], x[3], r),
           Splice(x[3], x[4], r)>>

\* detail::rotr( x, n ):  ( x >> n ) | ( x << ( w - n ) )
rotr(x, n) == RotBits(RotLimbs(x, n \div 16), n % 16)

RECURSIVE LimbSum(_, _, _)
\* Sum of limb j of the words xs[1..k].
LimbSum(xs, k, j) == IF k = 0 THEN 0 ELSE xs[k][j] + LimbSum(xs, k - 1, j)

RECURSIVE Carried(_, _, _)
\* The sums of limbs j .. 1 of the words xs, given the carry c into limb j.
Carried(xs, j, c) ==
    IF j = 0 THEN <<>>
    ELSE Append(Carried(xs, j - 1, (LimbSum(xs, Len(xs), j) + c) \div 65536),
                (LimbSum(xs, Len(xs), j) + c) % 65536)

\* Unsigned addition of the words xs, wrapping at the word width.
Sum(xs) == Carried(xs, Len(xs[1]), 0)

Add(x, y) == Sum(<<x, y>>)

\* detail::read32be / read64be: the word of nb bytes stored big-endian at p[off+1 ..].
readbe(p, off, nb) ==
    IF nb = 4
    THEN <<256 * p[off + 1] + p[off + 2], 256 * p[off + 3] + p[off + 4]>>
    ELSE <<256 * p[off + 1] + p[off + 2], 256 * p[off + 3] + p[off + 4],
           256 * p[off + 5] + p[off + 6], 256 * p[off + 7] + p[off + 8]>>

RECURSIVE writebe(_)
\* detail::write32be / write64be: the bytes of x, most significant first.
writebe(x) ==
    IF x = <<>> THEN <<>> ELSE <<x[1] \div 256, x[1] % 256>> \o writebe(Tail(x))

----------------------------------------------------------------------------
(* sha2_256_base *)

Sigma0_256(x) == Xor(Xor(rotr(x, 2), rotr(x, 13)), rotr(x, 22))
Sigma1_256(x) == Xor(Xor(rotr(x, 6), rotr(x, 11)), rotr(x, 25))
\* sigma0 with its shift taken for a third rotation
sigma0_256_rotated(x) == Xor(Xor(rotr(x, 7), rotr(x, 18)), rotr(x, 3))
sigma0_256(x) == Xor(Xor(rotr(x, 7), rotr(x, 18)), Shr(x, 3))
sigma1_256(x) == Xor(Xor(rotr(x, 17), rotr(x, 19)), Shr(x, 10))

Ch(x, y, z)  == Xor(And(x, y), And(Not(x), z))
Maj(x, y, z) == Xor(Xor(And(x, y), And(x, z)), And(y, z))

K256L ==
    <<
    <<\h428a, \h2f98>>, <<\h7137, \h4491>>, <<\hb5c0, \hfbcf>>, <<\he9b5, \hdba5>>, <<\h3956, \hc25b>>, <<\h59f1, \h11f1>>, <<\h923f, \h82a4>>, <<\hab1c, \h5ed5>>,
    <<\hd807, \haa98>>, <<\h1283, \h5b01>>, <<\h2431, \h85be>>, <<\h550c, \h7dc3>>, <<\h72be, \h5d74>>, <<\h80de, \hb1fe>>, <<\h9bdc, \h06a7>>, <<\hc19b, \hf174>>,
    <<\he49b, \h69c1>>, <<\hefbe, \h4786>>, <<\h0fc1, \h9dc6>>, <<\h240c, \ha1cc>>, <<\h2de9, \h2c6f>>, <<\h4a74, \h84aa>>, <<\h5cb0, \ha9dc>>, <<\h76f9, \h88da>>,
    <<\h983e, \h5152>>, <<\ha831, \hc66d>>, <<\hb003, \h27c8>>, <<\hbf59, \h7fc7>>, <<\hc6e0, \h0bf3>>, <<\hd5a7, \h9147>>, <<\h06ca, \h6351>>, <<\h1429, \h2967>>,
    <<\h27b7, \h0a85>>, <<\h2e1b, \h2138>>, <<\h4d2c, \h6dfc>>, <<\h5338, \h0d13>>, <<\h650a, \h7354>>, <<\h766a, \h0abb>>, <<\h81c2, \hc92e>>, <<\h9272, \h2c85>>,
    <<\ha2bf, \he8a1>>, <<\ha81a, \h664b>>, <<\hc24b, \h8b70>>, <<\hc76c, \h51a3>>, <<\hd192, \he819>>, <<\hd699, \h0624>>, <<\hf40e, \h3585>>, <<\h106a, \ha070>>,
    <<\h19a4, \hc116>>, <<\h1e37, \h6c08>>, <<\h2748, \h774c>>, <<\h34b0, \hbcb5>>, <<\h391c, \h0cb3>>, <<\h4ed8, \haa4a>>, <<\h5b9c, \hca4f>>, <<\h682e, \h6ff3>>,
    <<\h748f, \h82ee>>, <<\h78a5, \h636f>>, <<\h84c8, \h7814>>, <<\h8cc7, \h0208>>, <<\h90be, \hfffa>>, <<\ha450, \h6ceb>>, <<\hbef9, \ha3f7>>, <<\hc671, \h78f2>>
    >>
K512L ==
    <<
    <<\h428a, \h2f98, \hd728, \hae22>>, <<\h7137, \h4491, \h23ef, \h65cd>>, <<\hb5c0, \hfbcf, \hec4d, \h3b2f>>, <<\he9b5, \hdba5, \h8189, \hdbbc>>,
    <<\h3956, \hc25b, \hf348, \hb538>>, <<\h59f1, \h11f1, \hb605, \hd019>>, <<\h923f, \h82a4, \haf19, \h4f9b>>, <<\hab1c, \h5ed5, \hda6d, \h8118>>,
    <<\hd807, \haa98, \ha303, \h0242>>, <<\h1283, \h5b01, \h4570, \h6fbe>>, <<\h2431, \h85be, \h4ee4, \hb28c>>, <<\h550c, \h7dc3, \hd5ff, \hb4e2>>,
    <<\h72be, \h5d74, \hf27b, \h896f>>, <<\h80de, \hb1fe, \h3b16, \h96b1>>, <<\h9bdc, \h06a7, \h25c7, \h1235>>, <<\hc19b, \hf174, \hcf69, \h2694>>,
    <<\he49b, \h69c1, \h9ef1, \h4ad2>>, <<\hefbe, \h4786, \h384f, \h25e3>>, <<\h0fc1, \h9dc6, \h8b8c, \hd5b5>>, <<\h240c, \ha1cc, \h77ac, \h9c65>>,
    <<\h2de9, \h2c6f, \h592b, \h0275>>, <<\h4a74, \h84aa, \h6ea6, \he483>>, <<\h5cb0, \ha9dc, \hbd41, \hfbd4>>, <<\h76f9, \h88da, \h8311, \h53b5>>,
    <<\h983e, \h5152, \hee66, \hdfab>>, <<\ha831, \hc66d, \h2db4, \h3210>>, <<\hb003, \h27c8, \h98fb, \h213f>>, <<\hbf59, \h7fc7, \hbeef, \h0ee4>>,
    <<\hc6e0, \h0bf3, \h3da8, \h8fc2>>, <<\hd5a7, \h9147, \h930a, \ha725>>, <<\h06ca, \h6351, \he003, \h826f>>, <<\h1429, \h2967, \h0a0e, \h6e70>>,
    <<\h27b7, \h0a85, \h46d2, \h2ffc>>, <<\h2e1b, \h2138, \h5c26, \hc926>>, <<\h4d2c, \h6dfc, \h5ac4, \h2aed>>, <<\h5338, \h0d13, \h9d95, \hb3df>>,
    <<\h650a, \h7354, \h8baf, \h63de>>, <<\h766a, \h0abb, \h3c77, \hb2a8>>, <<\h81c2, \hc92e, \h47ed, \haee6>>, <<\h9272, \h2c85, \h1482, \h353b>>,
    <<\ha2bf, \he8a1, \h4cf1, \h0364>>, <<\ha81a, \h664b, \hbc42, \h3001>>, <<\hc24b, \h8b70, \hd0f8, \h9791>>, <<\hc76c, \h51a3, \h0654, \hbe30>>,
    <<\hd192, \he819, \hd6ef, \h5218>>, <<\hd699, \h0624, \h5565, \ha910>>, <<\hf40e, \h3585, \h5771, \h202a>>, <<\h106a, \ha070, \h32bb, \hd1b8>>,
    <<\h19a4, \hc116, \hb8d2, \hd0c8>>, <<\h1e37, \h6c08, \h5141, \hab53>>, <<\h2748, \h774c, \hdf8e, \heb99>>, <<\h34b0, \hbcb5, \he19b, \h48a8>>,
    <<\h391c, \h0cb3, \hc5c9, \h5a63>>, <<\h4ed8, \haa4a, \he341, \h8acb>>, <<\h5b9c, \hca4f, \h7763, \he373>>, <<\h682e, \h6ff3, \hd6b2, \hb8a3>>,
    <<\h748f, \h82ee, \h5def, \hb2fc>>, <<\h78a5, \h636f, \h4317, \h2f60>>, <<\h84c8, \h7814, \ha1f0, \hab72>>, <<\h8cc7, \h0208, \h1a64, \h39ec>>,
    <<\h90be, \hfffa, \h2363, \h1e28>>, <<\ha450, \h6ceb, \hde82, \hbde9>>, <<\hbef9, \ha3f7, \hb2c6, \h7915>>, <<\hc671, \h78f2, \he372, \h532b>>,
    <<\hca27, \h3ece, \hea26, \h619c>>, <<\hd186, \hb8c7, \h21c0, \hc207>>, <<\heada, \h7dd6, \hcde0, \heb1e>>, <<\hf57d, \h4f7f, \hee6e, \hd178>>,
    <<\h06f0, \h67aa, \h7217, \h6fba>>, <<\h0a63, \h7dc5, \ha2c8, \h98a6>>, <<\h113f, \h9804, \hbef9, \h0dae>>, <<\h1b71, \h0b35, \h131c, \h471b>>,
    <<\h28db, \h77f5, \h2304, \h7d84>>, <<\h32ca, \hab7b, \h40c7, \h2493>>, <<\h3c9e, \hbe0a, \h15c9, \hbebc>>, <<\h431d, \h67c4, \h9c10, \h0d4c>>,
    <<\h4cc5, \hd4be, \hcb3e, \h42b6>>, <<\h597f, \h299c, \hfc65, \h7e2a>>, <<\h5fcb, \h6fab, \h3ad6, \hfaec>>, <<\h6c44, \h198c, \h4a47, \h5817>>
    >>

\* constexpr static std::uint32_t const K[ 64 ]
K256 == K256L

\* The next word of the message schedule W (1-indexed here): one of w[ 0..15 ],
\* read from the block, or one of w[ 16..63 ], by the recurrence.
NextW256(block, W) ==
    IF Len(W) < 16
    THEN readbe(block, Len(W) * 4, 4)
    ELSE Sum(<<sigma1_256(W[Len(W) - 1]), W[Len(W) - 6],
               sigma0_256(W[Len(W) - 14]), W[Len(W) - 15]>>)

RECURSIVE Schedule256(_, _, _)
\* W with its next n words: the first half of them, then the rest.
Schedule256(block, W, n) ==
    IF n = 0 \/ Len(W) = 64 THEN W
    ELSE IF n = 1 THEN Append(W, NextW256(block, W))
    ELSE Schedule256(block, Schedule256(block, W, n \div 2), n - n \div 2)

\* One round: h = g; g = f; f = e; e = d + T1; d = c; c = b; b = a; a = T1 + T2
Round256(v, T1, T2) ==
    <<Add(T1, T2), v[1], v[2], v[3], Add(v[4], T1), v[5], v[6], v[7]>>

RECURSIVE Rounds256(_, _, _, _)
\* The n rounds t .. t + n - 1 applied to the working variables
\* v = <<a, b, c, d, e, f, g, h>>: the first half of them, then the rest.
Rounds256(t, n, v, W) ==
    IF n = 0 \/ Len(v) # 8 THEN v
    ELSE IF n = 1
         THEN Round256(v,
                       Sum(<<v[8], Sigma1_256(v[5]), Ch(v[5], v[6], v[7]), K256[t + 1], W[t + 1]>>),
                       Sum(<<Sigma0_256(v[1]), Maj(v[1], v[2], v[3])>>))
         ELSE Rounds256(t + n \div 2, n - n \div 2, Rounds256(t, n \div 2, v, W), W)

\* state[ 0..7 ] += a .. h
AddWorking256(state, v) ==
    <<Add(state[1], v[1]), Add(state[2], v[2]), Add(state[3], v[3]), Add(state[4], v[4]),
      Add(state[5], v[5]), Add(state[6], v[6]), Add(state[7], v[7]), Add(state[8], v[8])>>

\* sha2_256_base::transform( block, state )
transform_256(block, state) ==
    AddWorking256(state, Rounds256(0, 64, state, Schedule256(block, <<>>, 64)))


----------------------------------------------------------------------------
(* sha2_512_base *)

Sigma0_512(x) == Xor(Xor(rotr(x, 28), rotr(x, 34)), rotr(x, 39))
Sigma1_512(x) == Xor(Xor(rotr(x, 14), rotr(x, 18)), rotr(x, 41))
sigma0_512(x) == Xor(Xor(rotr(x, 1), rotr(x, 8)), Shr(x, 7))
sigma1_512(x) == Xor(Xor(rotr(x, 19), rotr(x, 61)), Shr(x, 6))

\* constexpr static std::uint64_t const K[ 80 ]
K512 == K512L

\* The next word of the message schedule W (1-indexed here): one of w[ 0..15 ],
\* read from the block, or one of w[ 16..79 ], by the recurrence.
NextW512(block, W) ==
    IF Len(W) < 16
    THEN readbe(block, Len(W) * 8, 8)
    ELSE Sum(<<sigma1_512(W[Len(W) - 1]), W[Len(W) - 6],
               sigma0_512(W[Len(W) - 14]), W[Len(W) - 15]>>)

RECURSIVE Schedule512(_, _, _)
\* W with its next n words: the first half of them, then the rest.
Schedule512(block, W, n) ==
    IF n = 0 \/ Len(W) = 80 THEN W
    ELSE IF n = 1 THEN Append(W, NextW512(block, W))
    ELSE Schedule512(block, Schedule512(block, W, n \div 2), n - n \div 2)

\* One round: h = g; g = f; f = e; e = d + T1; d = c; c = b; b = a; a = T1 + T2
Round512(v, T1, T2) ==
    <<Add(T1, T2), v[1], v[2], v[3], Add(v[4], T1), v[5], v[6], v[7]>>

RECURSIVE Rounds512(_, _, _, _)
\* The n rounds t .. t + n - 1 applied to the working variables
\* v = <<a, b, c, d, e, f, g, h>>: the first half of them, then the rest.
Rounds512(t, n, v, W) ==
    IF n = 0 \/ Len(v) # 8 THEN v
    ELSE IF n = 1
         THEN Round512(v,
                       Sum(<<v[8], Sigma1_512(v[5]), Ch(v[5], v[6], v[7]), K512[t + 1], W[t + 1]>>),
                       Sum(<<Sigma0_512(v[1]), Maj(v[1], v[2], v[3])>>))
         ELSE Rounds512(t + n \div 2, n - n \div 2, Rounds512(t, n \div 2, v, W), W)

\* state[ 0..7 ] += a .. h
AddWorking512(state, v) ==
    <<Add(state[1], v[1]), Add(state[2], v[2]), Add(state[3], v[3]), Add(state[4], v[4]),
      Add(state[5], v[5]), Add(state[6], v[6]), Add(state[7], v[7]), Add(state[8], v[8])>>

\* sha2_512_base::transform( block, state )
transform_512(block, state) ==
    AddWorking512(state, Rounds512(0, 80, state, Schedule512(block, <<>>, 80)))

----------------------------------------------------------------------------
(* The digest classes: init() *)

\* sha2_256::init
init_256 ==
    <<
       <<\h6a09, \he667>>, <<\hbb67, \hae85>>, <<\h3c6e, \hf372>>, <<\ha54f, \hf53a>>,
       <<\h510e, \h527f>>, <<\h9b05, \h688c>>, <<\h1f83, \hd9ab>>, <<\h5be0, \hcd19>>
    >>

\* sha2_224::init
init_224 ==
    <<
       <<\hc105, \h9ed8>>, <<\h367c, \hd507>>, <<\h3070, \hdd17>>, <<\hf70e, \h5939>>,
       <<\hffc0, \h0b31>>, <<\h6858, \h1511>>, <<\h64f9, \h8fa7>>, <<\hbefa, \h4fa4>>
    >>

\* sha2_512::init
init_512 ==
    <<
       <<\h6a09, \he667, \hf3bc, \hc908>>, <<\hbb67, \hae85, \h84ca, \ha73b>>,
       <<\h3c6e, \hf372, \hfe94, \hf82b>>, <<\ha54f, \hf53a, \h5f1d, \h36f1>>,
       <<\h510e, \h527f, \hade6, \h82d1>>, <<\h9b05, \h688c, \h2b3e, \h6c1f>>,
       <<\h1f83, \hd9ab, \hfb41, \hbd6b>>, <<\h5be0, \hcd19, \h137e, \h2179>>
    >>

\* sha2_384::init
init_384 ==
    <<
       <<\hcbbb, \h9d5d, \hc105, \h9ed8>>, <<\h629a, \h292a, \h367c, \hd507>>,
       <<\h9159, \h015a, \h3070, \hdd17>>, <<\h152f, \hecd8, \hf70e, \h5939>>,
       <<\h6733, \h2667, \hffc0, \h0b31>>, <<\h8eb4, \h4a87, \h6858, \h1511>>,
       <<\hdb0c, \h2e0d, \h64f9, \h8fa7>>, <<\h47b5, \h481d, \hbefa, \h4fa4>>
    >>

\* sha2_512_224::init
init_512_224 ==
    <<
       <<\h8c3d, \h37c8, \h1954, \h4da2>>, <<\h73e1, \h9966, \h89dc, \hd4d6>>,
       <<\h1dfa, \hb7ae, \h32ff, \h9c82>>, <<\h679d, \hd514, \h582f, \h9fcf>>,
       <<\h0f6d, \h2b69, \h7bd4, \h4da8>>, <<\h77e3, \h6f73, \h04c4, \h8942>>,
       <<\h3f9d, \h85a8, \h6a1d, \h36c8>>, <<\h1112, \he6ad, \h91d6, \h92a1>>
    >>

\* sha2_512_256::init
init_512_256 ==
    <<
       <<\h2231, \h2194, \hfc2b, \hf72c>>, <<\h9f55, \h5fa3, \hc84c, \h64c2>>,
       <<\h2393, \hb86b, \h6f53, \hb151>>, <<\h9638, \h7719, \h5940, \heabd>>,
       <<\h9628, \h3ee2, \ha88e, \hffe3>>, <<\hbe5e, \h1e25, \h5386, \h3992>>,
       <<\h2b01, \h99fc, \h2c85, \hb8aa>>, <<\h0eb7, \h2ddc, \h81c5, \h2ca2>>
    >>

----------------------------------------------------------------------------
(* The six digest classes and what distinguishes them *)

Algs == {"sha2_256", "sha2_224", "sha2_512", "sha2_384", "sha2_512_224", "sha2_512_256"}

\* The classes derived from sha2_256_base; the others derive from sha2_512_base.
Base256 == {"sha2_256", "sha2_224"}

\* sha2_base::N, the template argument M: the block size in bytes.
BlockSize(alg) == IF alg \in Base256 THEN 64 ELSE 128

\* sizeof bits in result(): the length field in bytes.
LengthSize(alg) == IF alg \in Base256 THEN 8 ELSE 16

\* The state words init() stores.
InitWords(alg) ==
    CASE alg = "sha2_256"     -> init_256
      [] alg = "sha2_224"     -> init_224
      [] alg = "sha2_512"     -> init_512
      [] alg = "sha2_384"     -> init_384
      [] alg = "sha2_512_224" -> init_512_224
      [] alg = "sha2_512_256" -> init_512_256

\* Algo::transform( block, state_ )
transform(alg, block, state) ==
    IF alg \in Base256 THEN transform_256(block, state) ELSE transform_512(block, state)

----------------------------------------------------------------------------
(* sha2_base: an object is a record of its fields state_, buffer_, m_, n_,  *)
(* with two fields of instrumentation: log, the blocks handed to            *)
(* Algo::transform so far, in order, and ok, whether every BOOST_ASSERT     *)
(* evaluated so far held.                                                    *)

\* A std::size_t or std::uint64_t holding the small number v, as a 64-bit word.
Word64(v) == <<0, 0, v \div 65536, v % 65536>>

RECURSIVE WordMod(_, _, _)
\* x % d for a word x (acc is the value of the limbs already read, mod d).
WordMod(x, d, acc) ==
    IF x = <<>> THEN acc ELSE WordMod(Tail(x), d, (acc * 65536 + x[1]) % d)

\* std::memcpy( dst + off, src, k ) on the array dst
memcpy(dst, off, src, k) ==
    SubSeq(dst, 1, off) \o SubSeq(src, 1, k) \o SubSeq(dst, off + k + 1, Len(dst))

\* std::memset( buffer_, 0, N )
Zeros(len) == [i \in 1..len |-> 0]

\* sha2_base::sha2_base(): m_( 0 ), n_( 0 );  buffer_ and state_ are left
\* uninitialized, and the derived constructor's init() stores the state words.
\* garbage is what the uninitialized buffer_ happens to hold.
Construct(alg, garbage) ==
    [ state_  |-> InitWords(alg),
      buffer_ |-> garbage,
      m_      |-> 0,
      n_      |-> Word64(0),
      log     |-> <<>>,
      ok      |-> TRUE ]

\* Algo::transform( block, state_ ), recorded in the log.
Compress(alg, o, block) ==
    [o EXCEPT !.state_ = transform(alg, block, o.state_), !.log = Append(o.log, block)]

RECURSIVE WhileBlocks(_, _, _)
\* The loop with the test n > N: a chunk that ends on a block edge keeps its
\* last block back.
WhileBlocks_late(alg, o, p) ==
    LET N == BlockSize(alg)
    IN  IF Len(p) > N
        THEN WhileBlocks(alg, Compress(alg, o, SubSeq(p, 1, N)), SubSeq(p, N + 1, Len(p)))
        ELSE IF Len(p) > 0
             THEN [o EXCEPT !.buffer_ = memcpy(o.buffer_, 0, p, Len(p)), !.m_ = Len(p)]
             ELSE o

\* update, lines 79-93: while( n >= N ) transform the next block of p; then
\* copy what is left of p, if anything, to the front of buffer_.
WhileBlocks(alg, o, p) ==
    LET N == BlockSize(alg)
    IN  IF Len(p) >= N
        THEN WhileBlocks(alg, Compress(alg, o, SubSeq(p, 1, N)), SubSeq(p, N + 1, Len(p)))
        ELSE IF Len(p) > 0
             THEN [o EXCEPT !.buffer_ = memcpy(o.buffer_, 0, p, Len(p)), !.m_ = Len(p)]
             ELSE o

\* BOOST_ASSERT( cond ) in the object o: a failure is remembered in ok.
BOOST_ASSERT(o, cond) == [o EXCEPT !.ok = @ /\ cond]

\* BOOST_ASSERT( m_ == n_ % N ), lines 48 and 95
AssertPending(alg, o) == BOOST_ASSERT(o, o.m_ = WordMod(o.n_, BlockSize(alg), 0))

\* update, lines 77-95, entered with the part p of the input not yet consumed.
FromBlockStart(alg, o, p) ==
    AssertPending(alg, WhileBlocks(alg, BOOST_ASSERT(o, o.m_ = 0), p))

\* update, lines 54-59: std::size_t k = N - m_; if( n < k ) k = n;
TopUpLength(alg, o, p) ==
    IF Len(p) < BlockSize(alg) - o.m_ THEN Len(p) ELSE BlockSize(alg) - o.m_

\* The flush without m_ = 0.
Flush_full(alg, o) ==
    [Compress(alg, BOOST_ASSERT(o, o.m_ = BlockSize(alg)), o.buffer_)
        EXCEPT !.buffer_ = Zeros(BlockSize(alg))]

\* The flush without std::memset: buffer_ keeps the block just transformed.
Flush_stale(alg, o) ==
    [Compress(alg, BOOST_ASSERT(o, o.m_ = BlockSize(alg)), o.buffer_) EXCEPT !.m_ = 0]

\* update, lines 69-74: the pending block is full; transform it and clear buffer_.
Flush(alg, o) ==
    [Compress(alg, BOOST_ASSERT(o, o.m_ = BlockSize(alg)), o.buffer_)
        EXCEPT !.m_ = 0, !.buffer_ = Zeros(BlockSize(alg))]

\* The top-up without p += k: the bytes that went to the pending block are read again.
AfterTopUp_again(alg, o, p, k) ==
    IF o.m_ < BlockSize(alg)
    THEN o
    ELSE FromBlockStart(alg, Flush(alg, o), p)

\* The top-up without its early return: the pending block is transformed at once.
AfterTopUp_eager(alg, o, p, k) ==
    FromBlockStart(alg, Flush(alg, o), SubSeq(p, k + 1, Len(p)))

\* update, lines 67-95, after the first k bytes of p went to the pending block.
AfterTopUp(alg, o, p, k) ==
    IF o.m_ < BlockSize(alg)
    THEN o                                                           \* line 67
    ELSE FromBlockStart(alg, Flush(alg, o), SubSeq(p, k + 1, Len(p)))

\* The top-up copying to buffer_ instead of buffer_ + m_.
TopUp_front(alg, o, p, k) ==
    AfterTopUp(alg, [o EXCEPT !.buffer_ = memcpy(o.buffer_, 0, p, k), !.m_ = o.m_ + k], p, k)

\* update, lines 52-75: top up the pending block with the first k bytes of p.
TopUp(alg, o, p, k) ==
    AfterTopUp(alg, [o EXCEPT !.buffer_ = memcpy(o.buffer_, o.m_, p, k), !.m_ = o.m_ + k], p, k)

\* update, lines 50-95, after the assertion of line 48.
Absorb(alg, o, p) ==
    IF o.m_ > 0 THEN TopUp(alg, o, p, TopUpLength(alg, o, p)) ELSE FromBlockStart(alg, o, p)

\* sha2_base::update( pv, n ): p is the n bytes at pv.
update(alg, o, p) ==
    Absorb(alg, [AssertPending(alg, o) EXCEPT !.n_ = Add(o.n_, Word64(Len(p)))], p)

----------------------------------------------------------------------------
(* result() of the six classes *)

RECURSIVE Serialize(_)
\* write32be / write64be of each word of ws in turn, into consecutive bytes.
Serialize(ws) == IF ws = <<>> THEN <<>> ELSE writebe(ws[1]) \o Serialize(Tail(ws))

\* n_ * 8 in std::uint64_t
Times8(x) == Sum(<<x, x, x, x, x, x, x, x>>)

\* static_cast<std::uint32_t>( x ) of a 64-bit word: write32be's parameter
Low32(x) == <<x[3], x[4]>>

\* The length field holding n_, the count of bytes, instead of n_ * 8.
LengthField_bytes(alg, n) ==
    IF alg \in Base256 THEN writebe(n) ELSE Zeros(8) \o writebe(n)

\* unsigned char bits[ 8 ] / bits[ 16 ] = { 0 }, after write64be of n_ * 8
LengthField(alg, n) ==
    IF alg \in Base256 THEN writebe(Times8(n)) ELSE Zeros(8) \o writebe(Times8(n))

\* The pad length with the tests m_ <= 56 and m_ <= 112.
PadLength_inclusive(alg, m) ==
    IF alg \in Base256
    THEN IF m <= 56 THEN 56 - m ELSE 64 + 56 - m
    ELSE IF m <= 112 THEN 112 - m ELSE 128 + 112 - m

\* std::size_t k = m_ < 56 ? 56 - m_ : 64 + 56 - m_;   (112 and 128 + 112 for the
\* classes on sha2_512_base)
PadLength(alg, m) ==
    IF alg \in Base256
    THEN IF m < 56 THEN 56 - m ELSE 64 + 56 - m
    ELSE IF m < 112 THEN 112 - m ELSE 128 + 112 - m

\* The padding array without its 0x80 byte.
Padding_blank(alg) == Zeros(BlockSize(alg))

\* unsigned char padding[ N ] = { 0x80 }
Padding(alg) == <<128>> \o Zeros(BlockSize(alg) - 1)

\* The digests with sha2_512_224 writing the low half of its fourth word.
DigestBytes_low(alg, state) ==
    CASE alg = "sha2_256"     -> Serialize(SubSeq(state, 1, 8))
      [] alg = "sha2_224"     -> Serialize(SubSeq(state, 1, 7))
      [] alg = "sha2_512"     -> Serialize(SubSeq(state, 1, 8))
      [] alg = "sha2_384"     -> Serialize(SubSeq(state, 1, 6))
      [] alg = "sha2_512_224" -> Serialize(SubSeq(state, 1, 3)) \o writebe(Low32(state[4]))
      [] alg = "sha2_512_256" -> Serialize(SubSeq(state, 1, 4))

\* The bytes the result() of each class writes to digest from the final state words.
DigestBytes(alg, state) ==
    CASE alg = "sha2_256"     -> Serialize(SubSeq(state, 1, 8))
      [] alg = "sha2_224"     -> Serialize(SubSeq(state, 1, 7))
      [] alg = "sha2_512"     -> Serialize(SubSeq(state, 1, 8))
      [] alg = "sha2_384"     -> Serialize(SubSeq(state, 1, 6))
      [] alg = "sha2_512_224" -> Serialize(SubSeq(state, 1, 3)) \o writebe(Low32(Shr(state[4], 32)))
      [] alg = "sha2_512_256" -> Serialize(SubSeq(state, 1, 4))

\* result(), from BOOST_ASSERT( m_ == 0 ) on: o is the object after the two
\* update calls, which absorbed k bytes of padding and the length field bits.
Finish(alg, o, k, bits) ==
    [ obj    |-> BOOST_ASSERT(o, o.m_ = 0),
      digest |-> DigestBytes(alg, o.state_),
      k      |-> k,
      bits   |-> bits ]

\* result(), from update( padding, k ) on.
PadAndFinish(alg, o, k, bits) ==
    Finish(alg, update(alg, update(alg, o, SubSeq(Padding(alg), 1, k)), bits), k, bits)

\* result(): the object afterwards, the digest returned, and what was absorbed:
\* the k bytes of padding and the length field.
result(alg, o) ==
    PadAndFinish(alg, o, PadLength(alg, o.m_), LengthField(alg, o.n_))

----------------------------------------------------------------------------
(* The state machine: one object of class alg, constructed, fed by update   *)
(* calls and finalized by result().                                          *)

VARIABLES
    alg,        \* the class of the object
    state_,     \* Word state_[ 8 ]
    buffer_,    \* unsigned char buffer_[ N ]
    m_,         \* std::size_t m_
    n_,         \* std::uint64_t n_
    blocks,     \* the blocks handed to Algo::transform so far, in order
    asserts,    \* no BOOST_ASSERT has failed so far
    pc,         \* "absorbing" until result() has returned, then "done"
    digest,     \* what result() returned
    fin,        \* what result() saw (m_, the blocks transformed before it, the last
                \* byte of buffer_) and absorbed (k bytes of padding, then bits)
    total,      \* the number of input bytes the caller has passed to update
    calls       \* the number of update calls the caller has made

vars == <<alg, state_, buffer_, m_, n_, blocks, asserts, pc, digest, fin, total, calls>>

\* The caller makes at most MaxCalls update calls in the runs of Spec and SpecDigest.
MaxCalls == 3

\* In the runs of Spec the input is at most two blocks and Slack bytes long.
Slack == 2

\* In the runs of SpecPad the input is at most one block and PadSlack bytes long.
PadSlack == 1

\* What the uninitialized buffer_ may hold after construction: every byte 0x00,
\* or every byte 0xAA.
UninitFill == {0, 170}

\* The chunk lengths the caller passes in the runs of Spec (N is the block size).
ChunkSizes(N) == {0, 1, 3, N - 1, N, N + 1, 2 * N + 1}

\* The chunk lengths the caller passes in the runs of SpecDigest.
MessageSizes == {0, 1, 2, 3}

\* The classes that instantiate sha2_base<Word, Algo, 64> and <Word, Algo, 128> directly.
BaseAlgs == {"sha2_256", "sha2_512"}

\* The caller's input stream: byte i (from 1) of "abcdefgh...", all 256 values in turn.
StreamByte(i) == (96 + i) % 256

\* The n bytes of the stream that follow its first t bytes.
Chunk(t, n) == [i \in 1..n |-> StreamByte(t + i)]

\* The object as update and result take it.
Obj ==
    [ state_ |-> state_, buffer_ |-> buffer_, m_ |-> m_, n_ |-> n_,
      log |-> blocks, ok |-> asserts ]

Store(o) ==
    /\ state_'  = o.state_
    /\ buffer_' = o.buffer_
    /\ m_'      = o.m_
    /\ n_'      = o.n_
    /\ blocks'  = o.log
    /\ asserts' = o.ok

NoFin == [ m |-> 0, k |-> 0, bits |-> <<>>, before |-> 0, last |-> 0 ]

\* H h;  for a class H among algs
InitOf(algs) ==
    /\ alg \in algs
    /\ \E g \in UninitFill :
         \E o \in {Construct(alg, [i \in 1..BlockSize(alg) |-> g])} :
             /\ state_  = o.state_
             /\ buffer_ = o.buffer_
             /\ m_      = o.m_
             /\ n_      = o.n_
             /\ blocks  = o.log
             /\ asserts = o.ok
    /\ pc = "absorbing"
    /\ digest = <<>>
    /\ fin = NoFin
    /\ total = 0
    /\ calls = 0

\* h.update( p, n ) with the next n bytes of the stream
Update(n) ==
    /\ pc = "absorbing"
    /\ \E o \in {update(alg, Obj, Chunk(total, n))} : Store(o)
    /\ total' = total + n
    /\ calls' = calls + 1
    /\ UNCHANGED <<alg, pc, digest, fin>>

\* h.result()
Result ==
    /\ pc = "absorbing"
    /\ \E r \in {result(alg, Obj)} :
           /\ Store(r.obj)
           /\ digest' = r.digest
           /\ fin' = [ m |-> m_, k |-> r.k, bits |-> r.bits, before |-> Len(blocks),
                     last |-> buffer_[BlockSize(alg)] ]
    /\ pc' = "done"
    /\ UNCHANGED <<alg, total, calls>>

\* The caller of Spec: a few chunks of the lengths that meet the block edges.
UpdateChunk ==
    \E n \in ChunkSizes(BlockSize(alg)) :
        /\ calls < MaxCalls
        /\ total + n <= 2 * BlockSize(alg) + Slack
        /\ Update(n)

\* The caller of SpecDigest: a short message in a few pieces.
UpdateMessage ==
    \E n \in MessageSizes :
        /\ calls < MaxCalls
        /\ Update(n)

\* The caller of SpecPad: one byte at a time.
UpdateByte ==
    /\ total < BlockSize(alg) + PadSlack
    /\ Update(1)

Init == InitOf(BaseAlgs)
Next == UpdateChunk \/ Result
Spec == Init /\ [][Next]_vars

InitDigest == InitOf(Algs)
NextDigest == UpdateMessage \/ Result
SpecDigest == InitDigest /\ [][NextDigest]_vars

InitPad == InitOf(BaseAlgs)
NextPad == UpdateByte \/ Result
SpecPad == InitPad /\ [][NextPad]_vars

----------------------------------------------------------------------------
(* The properties checked *)

RECURSIVE Flatten(_)
\* The bytes of the blocks bs, in order.
Flatten(bs) == IF bs = <<>> THEN <<>> ELSE bs[1] \o Flatten(Tail(bs))

\* What the claims compare of an object: the state words, the pending count,
\* the pending bytes buffer_[ 0..m_ ) and the total counter.
Final(o) == <<o.state_, o.m_, SubSeq(o.buffer_, 1, o.m_), o.n_>>

\* A fresh instance of class a whose buffer_ held the byte g everywhere, given
\* the first t bytes of the stream in a single update call.
SingleCall(a, g, t) ==
    update(a, Construct(a, [i \in 1..BlockSize(a) |-> g]), Chunk(0, t))

\* C1: However the caller cuts the stream into update calls, the object is in
\* the state (state words, m_, buffer_[ 0..m_ ), n_) of a fresh instance given
\* the same bytes in one update call, and result() returns that instance's digest.
C1_ChunkingInvariance ==
    \A g \in UninitFill :
        /\ pc = "absorbing" => Final(Obj) = Final(SingleCall(alg, g, total))
        /\ pc = "done" => digest = result(alg, SingleCall(alg, g, total)).digest

\* A message cut in two calls, the second topping up the pending byte and
\* running over two block edges, and finalized.
C1_Witness ==
    /\ pc = "done"
    /\ calls = 2
    /\ total = 2 * BlockSize(alg) + 2
    /\ fin.m = 2

RECURSIVE HexBytes(_)
\* The bytes of the 16-bit groups ws.
HexBytes(ws) ==
    IF ws = <<>> THEN <<>> ELSE <<ws[1] \div 256, ws[1] % 256>> \o HexBytes(Tail(ws))

\* The published digests of the empty message, four hex digits (two bytes) at a time.
EmptyDigest(a) ==
    CASE a = "sha2_256"      -> <<\he3b0, \hc442, \h98fc, \h1c14, \h9afb, \hf4c8, \h996f, \hb924,
                               \h27ae, \h41e4, \h649b, \h934c, \ha495, \h991b, \h7852, \hb855>>
      [] a = "sha2_224"      -> <<\hd14a, \h028c, \h2a3a, \h2bc9, \h4761, \h02bb, \h2882, \h34c4,
                               \h15a2, \hb01f, \h828e, \ha62a, \hc5b3, \he42f>>
      [] a = "sha2_512"      -> <<\hcf83, \he135, \h7eef, \hb8bd, \hf154, \h2850, \hd66d, \h8007,
                               \hd620, \he405, \h0b57, \h15dc, \h83f4, \ha921, \hd36c, \he9ce,
                               \h47d0, \hd13c, \h5d85, \hf2b0, \hff83, \h18d2, \h877e, \hec2f,
                               \h63b9, \h31bd, \h4741, \h7a81, \ha538, \h327a, \hf927, \hda3e>>
      [] a = "sha2_384"      -> <<\h38b0, \h60a7, \h51ac, \h9638, \h4cd9, \h327e, \hb1b1, \he36a,
                               \h21fd, \hb711, \h14be, \h0743, \h4c0c, \hc7bf, \h63f6, \he1da,
                               \h274e, \hdebf, \he76f, \h65fb, \hd51a, \hd2f1, \h4898, \hb95b>>
      [] a = "sha2_512_224"  -> <<\h6ed0, \hdd02, \h806f, \ha89e, \h25de, \h060c, \h19d3, \hac86,
                               \hcabb, \h87d6, \ha0dd, \hd05c, \h333b, \h84f4>>
      [] a = "sha2_512_256"  -> <<\hc672, \hb8d1, \hef56, \hed28, \hab87, \hc362, \h2c51, \h1406,
                               \h9bdd, \h3ad7, \hb8f9, \h7374, \h98d0, \hc01e, \hcef0, \h967a>>

\* The published digests of the three bytes "abc", four hex digits (two bytes) at a time.
AbcDigest(a) ==
    CASE a = "sha2_256"      -> <<\hba78, \h16bf, \h8f01, \hcfea, \h4141, \h40de, \h5dae, \h2223,
                               \hb003, \h61a3, \h9617, \h7a9c, \hb410, \hff61, \hf200, \h15ad>>
      [] a = "sha2_224"      -> <<\h2309, \h7d22, \h3405, \hd822, \h8642, \ha477, \hbda2, \h55b3,
                               \h2aad, \hbce4, \hbda0, \hb3f7, \he36c, \h9da7>>
      [] a = "sha2_512"      -> <<\hddaf, \h35a1, \h9361, \h7aba, \hcc41, \h7349, \hae20, \h4131,
                               \h12e6, \hfa4e, \h89a9, \h7ea2, \h0a9e, \heee6, \h4b55, \hd39a,
                               \h2192, \h992a, \h274f, \hc1a8, \h36ba, \h3c23, \ha3fe, \hebbd,
                               \h454d, \h4423, \h643c, \he80e, \h2a9a, \hc94f, \ha54c, \ha49f>>
      [] a = "sha2_384"      -> <<\hcb00, \h753f, \h45a3, \h5e8b, \hb5a0, \h3d69, \h9ac6, \h5007,
                               \h272c, \h32ab, \h0ede, \hd163, \h1a8b, \h605a, \h43ff, \h5bed,
                               \h8086, \h072b, \ha1e7, \hcc23, \h58ba, \heca1, \h34c8, \h25a7>>
      [] a = "sha2_512_224"  -> <<\h4634, \h270f, \h707b, \h6a54, \hdaae, \h7530, \h4608, \h42e2,
                               \h0e37, \hed26, \h5cee, \he9a4, \h3e89, \h24aa>>
      [] a = "sha2_512_256"  -> <<\h5304, \h8e26, \h8194, \h1ef9, \h9b2e, \h29b7, \h6b4c, \h7dab,
                               \he4c2, \hd0c6, \h34fc, \h6d46, \he0e2, \hf131, \h07e7, \haf23>>

\* C2: Each class returns the published digest of the empty message and of
\* "abc"; for sha2_256 these are e3b0c442...7852b855 and ba7816bf...f20015ad.
C2_KnownAnswers ==
    pc = "done" =>
        /\ total = 0 => digest = HexBytes(EmptyDigest(alg))
        /\ total = 3 => digest = HexBytes(AbcDigest(alg))

\* sha2_256 has hashed "abc", passed in two calls.
C2_Witness ==
    /\ pc = "done"
    /\ alg = "sha2_256"
    /\ total = 3
    /\ calls = 2
    /\ digest[1] = \hba

\* C3: A message of total bytes costs (total + L) \div N + 1 compressions in
\* all; the update calls make total \div N of them, and result() one when the
\* pending count is below N - L and two otherwise; messages of N - 1, N and
\* N + 1 bytes take two blocks each.
C3_BlockCount ==
    pc = "done" =>
        /\ Len(blocks) = (total + LengthSize(alg)) \div BlockSize(alg) + 1
        /\ fin.before = total \div BlockSize(alg)
        /\ Len(blocks) - fin.before
             = (IF fin.m < BlockSize(alg) - LengthSize(alg) THEN 1 ELSE 2)
        /\ total \in {BlockSize(alg) - 1, BlockSize(alg), BlockSize(alg) + 1}
             => Len(blocks) = 2

\* A message of one block and one byte, finalized with two compressions in all.
C3_Witness ==
    /\ pc = "done"
    /\ total = BlockSize(alg) + 1
    /\ Len(blocks) = 2
    /\ fin.before = 1

RECURSIVE BigEndian(_, _)
\* The number v in len bytes, most significant first.
BigEndian(v, len) ==
    IF len = 0 THEN <<>> ELSE Append(BigEndian(v \div 256, len - 1), v % 256)

\* The last len elements of the sequence q.
Last(q, len) == SubSeq(q, Len(q) - len + 1, Len(q))

\* C4: The length field result() absorbs last is 8 times the number of bytes
\* absorbed before it, big-endian: 8 bytes for the 64-byte-block classes, and
\* for the 128-byte-block classes 16 bytes of which the high 8 are zero.
C4_LengthField ==
    pc = "done" =>
        /\ fin.bits = (IF BlockSize(alg) = 64
                       THEN BigEndian(8 * total, 8)
                       ELSE <<0, 0, 0, 0, 0, 0, 0, 0>> \o BigEndian(8 * total, 8))
        /\ Last(Flatten(blocks), LengthSize(alg)) = fin.bits

\* sha2_512 finalized after one whole block: 1024 bits, the length field ends 04 00.
C4_Witness ==
    /\ pc = "done"
    /\ alg = "sha2_512"
    /\ total = 128
    /\ Len(fin.bits) = 16
    /\ fin.bits[15] = 4

\* Byte j (0 is the most significant) of the word x.
ByteOf(x, j) == IF j % 2 = 0 THEN x[j \div 2 + 1] \div 256 ELSE x[j \div 2 + 1] % 256

\* The big-endian bytes of the first n words of ws, each of wb bytes.
WordsOut(ws, wb, n) == [i \in 1..(n * wb) |-> ByteOf(ws[(i - 1) \div wb + 1], (i - 1) % wb)]

\* The high 32 bits of the 64-bit word x, most significant byte first.
HighHalf(x) == <<ByteOf(x, 0), ByteOf(x, 1), ByteOf(x, 2), ByteOf(x, 3)>>

\* C5: The digest is the big-endian bytes of a prefix of the final state words:
\* 8 words for sha2_256 (32 bytes), 7 for sha2_224 (28), 8 for sha2_512 (64),
\* 6 for sha2_384 (48), 4 for sha2_512_256 (32), and for sha2_512_224 3 words
\* and the high 32 bits of the fourth (28).
C5_Truncation ==
    pc = "done" =>
        /\ digest =
             CASE alg = "sha2_256"     -> WordsOut(state_, 4, 8)
               [] alg = "sha2_224"     -> WordsOut(state_, 4, 7)
               [] alg = "sha2_512"     -> WordsOut(state_, 8, 8)
               [] alg = "sha2_384"     -> WordsOut(state_, 8, 6)
               [] alg = "sha2_512_256" -> WordsOut(state_, 8, 4)
               [] alg = "sha2_512_224" -> WordsOut(state_, 8, 3) \o HighHalf(state_[4])
        /\ Len(digest) =
             CASE alg = "sha2_256"     -> 32
               [] alg = "sha2_224"     -> 28
               [] alg = "sha2_512"     -> 64
               [] alg = "sha2_384"     -> 48
               [] alg = "sha2_512_256" -> 32
               [] alg = "sha2_512_224" -> 28

\* sha2_512_224 has returned its 28 bytes, the last four from the fourth word.
C5_Witness ==
    /\ pc = "done"
    /\ alg = "sha2_512_224"
    /\ Len(digest) = 28
    /\ digest[25] = state_[4][1] \div 256

\* C6: Before any update call every fresh instance of a class holds the same
\* state words, m_ and n_, whatever its buffer_ holds; and the digest is that of
\* any fresh instance given the same bytes, whatever its buffer_ held.
C6_Determinism ==
    /\ (pc = "absorbing" /\ calls = 0) =>
           /\ state_ = InitWords(alg)
           /\ m_ = 0
           /\ n_ = <<0, 0, 0, 0>>
           /\ blocks = <<>>
    /\ pc = "done" =>
           \A g \in UninitFill : digest = result(alg, SingleCall(alg, g, total)).digest

\* An instance whose buffer_ held 0xAA bytes at construction has hashed "abc".
C6_Witness ==
    /\ pc = "done"
    /\ total = 3
    /\ fin.last = 170
    /\ Len(digest) > 0

\* C7: An update call of zero bytes transforms no block and leaves the state
\* words, buffer_, m_ and n_ as they were.
C7_ZeroLengthNoOp ==
    [][(calls' = calls + 1 /\ total' = total) =>
          /\ state_' = state_
          /\ buffer_' = buffer_
          /\ m_' = m_
          /\ n_' = n_
          /\ blocks' = blocks
          /\ asserts' = asserts]_vars

\* Three bytes are pending after two update calls, one of them of zero bytes.
C7_Witness ==
    /\ pc = "absorbing"
    /\ calls = 2
    /\ total = 3
    /\ m_ = 3

\* C8: After construction and after every update call m_ is n_ % N and lies
\* in 0 .. N - 1, n_ is the number of bytes passed so far, and no BOOST_ASSERT
\* has failed.
C8_BufferCount ==
    /\ asserts
    /\ m_ = WordMod(n_, BlockSize(alg), 0)
    /\ m_ \in 0..(BlockSize(alg) - 1)
    /\ pc = "absorbing" => n_ = <<0, 0, total \div 65536, total % 65536>>

\* The early return: a second call has topped up the pending byte without
\* filling the block.
C8_Witness ==
    /\ pc = "absorbing"
    /\ calls = 2
    /\ total = 4
    /\ m_ = 4
    /\ blocks = <<>>

\* C9: After update calls of total bytes in all, total \div N blocks have been
\* transformed, and the i-th of them is bytes (i - 1) * N + 1 .. i * N of the stream.
C9_BlocksInOrder ==
    pc = "absorbing" =>
        /\ Len(blocks) = total \div BlockSize(alg)
        /\ \A i \in 1..Len(blocks) :
               blocks[i] = Chunk((i - 1) * BlockSize(alg), BlockSize(alg))

\* Two blocks transformed after two calls, the first assembled in buffer_ (the
\* first call left N - 1 bytes pending), the second passed from the input.
C9_Witness ==
    /\ pc = "absorbing"
    /\ calls = 2
    /\ total = 2 * BlockSize(alg)
    /\ Len(blocks) = 2
    /\ m_ = 0
    /\ buffer_ = Zeros(BlockSize(alg))

\* C10: result() absorbs k bytes of padding, 1 <= k <= N, a 0x80 byte and then
\* zeros, then the L bytes of the length field; after that m_ is 0, no
\* BOOST_ASSERT has failed, and the blocks transformed are the whole padded stream.
C10_Finalize ==
    pc = "done" =>
        /\ fin.k \in 1..BlockSize(alg)
        /\ Len(fin.bits) = LengthSize(alg)
        /\ Flatten(blocks)
             = Chunk(0, total) \o <<128>> \o [i \in 1..(fin.k - 1) |-> 0] \o fin.bits
        /\ Len(blocks) * BlockSize(alg) = total + fin.k + LengthSize(alg)
        /\ m_ = 0
        /\ asserts

\* The longest pad: N - L bytes were pending, and result() absorbed N bytes of padding.
C10_Witness ==
    /\ pc = "done"
    /\ fin.m = BlockSize(alg) - LengthSize(alg)
    /\ fin.k = BlockSize(alg)
    /\ m_ = 0

\* The unfilled tail of buffer_: the bytes at positions m_ .. N - 1.
UnfilledTail == SubSeq(buffer_, m_ + 1, BlockSize(alg))

\* C11 as stated: in every state reached by construction and update calls the
\* unfilled tail of buffer_ is all zero.
C11_ZeroTail ==
    pc = "absorbing" => \A i \in 1..Len(UnfilledTail) : UnfilledTail[i] = 0

\* C11, amended: in every state reached by construction and update calls the
\* unfilled tail of buffer_ is all zero or is still what buffer_ held there at
\* construction, which the constructor does not set; it is all zero once a
\* block has been transformed from buffer_, and after result().
C11_TailZeroOrUninitialized ==
    /\ pc = "absorbing" =>
           \E g \in UninitFill : \A i \in 1..Len(UnfilledTail) : UnfilledTail[i] = g
    /\ pc = "done" => buffer_ = Zeros(BlockSize(alg))

\* Three bytes are pending after one update call on an instance whose buffer_
\* held 0xAA bytes at construction: the tail still holds them.
C11_Witness ==
    /\ pc = "absorbing"
    /\ calls = 1
    /\ m_ = 3
    /\ UnfilledTail[1] = 170
    /\ UnfilledTail[BlockSize(alg) - 3] = 170

====
